---- MODULE Spec2Model ----
(***************************************************************************)
(* A model of divortio-timeID (src/src/timeID.js): the 64-symbol           *)
(* dictionary and its lookup tables, the SFC32 generator, the timestamp    *)
(* codec (encodeTime / decodeTime), the randomness generator (newRND) and  *)
(* the identifier composer (TimeIDRandom.newID).                           *)
(*                                                                         *)
(* Representation.                                                         *)
(*  - A JavaScript string is the sequence of its UTF-16 code units.        *)
(*  - A JavaScript value is a record [t, k, n, s]: t is its type,          *)
(*    for a number k is its kind ("int": a non-negative integer, "frac":   *)
(*    a non-negative number with a fractional part, "neg": below zero,     *)
(*    "nan", "inf") and n = <<hi, lo>> is its integer part                 *)
(*    hi * 2^24 + lo with 0 <= lo < 2^24 (the model checker's integers are *)
(*    32 bits wide; a double holds integers exactly up to 2^53).  For a    *)
(*    Date, k and n are those of its time value.  s is a string's text.    *)
(*  - A 32-bit word of the generator is <<h, l>>, two 16-bit halves, the   *)
(*    value h * 2^16 + l taken modulo 2^32 (the code keeps the same bits   *)
(*    as a signed 32-bit integer).                                         *)
(***************************************************************************)
EXTENDS Integers, Sequences, FiniteSets

VARIABLES _a, _b, _c, _d, call, prev, calls

vars == <<_a, _b, _c, _d, call, prev, calls>>

\* The number of API calls of one run of the model.
MaxCalls == 2

-----------------------------------------------------------------------------
(* JavaScript values *)

P24 == 2^24
P16 == 2^16

JsNumber(kind, hi, lo) == [t |-> "number", k |-> kind, n |-> <<hi, lo>>, s |-> <<>>]
JsInt(hi, lo) == JsNumber("int", hi, lo)
NaN == JsNumber("nan", 0, 0)
Infinity == JsNumber("inf", 0, 0)
JsString(text) == [t |-> "string", k |-> "", n |-> <<0, 0>>, s |-> text]
JsDate(time) == [t |-> "date", k |-> time.k, n |-> time.n, s |-> <<>>]
null == [t |-> "null", k |-> "", n |-> <<0, 0>>, s |-> <<>>]
undefined == [t |-> "undefined", k |-> "", n |-> <<0, 0>>, s |-> <<>>]
TypeError == [t |-> "TypeError", k |-> "", n |-> <<0, 0>>, s |-> <<>>]

\* The text of "undefined", as string concatenation renders the value.
UndefinedText == <<117, 110, 100, 101, 102, 105, 110, 101, 100>>

\* x + y of JavaScript for operands that are strings or undefined.
JsAdd(x, y) ==
    IF x.t = "string" \/ y.t = "string"
    THEN JsString((IF x.t = "string" THEN x.s ELSE UndefinedText)
                \o (IF y.t = "string" THEN y.s ELSE UndefinedText))
    ELSE NaN

\* x < y on non-negative integers <<hi, lo>>.
NumLess(x, y) == x[1] < y[1] \/ (x[1] = y[1] /\ x[2] < y[2])

\* s1 < s2 of JavaScript on strings: code unit by code unit.
RECURSIVE StrLess(_, _)
StrLess(s1, s2) ==
    IF s2 = <<>> THEN FALSE
    ELSE IF s1 = <<>> THEN TRUE
    ELSE IF Head(s1) # Head(s2) THEN Head(s1) < Head(s2)
    ELSE StrLess(Tail(s1), Tail(s2))

\* ts % 64: the remainder keeps a fractional part; NaN and Infinity give NaN.
JsMod64(ts) ==
    CASE ts.k = "int" -> JsInt(0, ts.n[2] % 64)
      [] ts.k = "frac" -> JsNumber("frac", 0, ts.n[2] % 64)
      [] OTHER -> NaN

\* Math.floor(ts * DIV_64): exact, the factor being a power of two.
JsFloorDiv64(ts) ==
    CASE ts.k \in {"int", "frac"} ->
            JsInt(ts.n[1] \div 64, (ts.n[1] % 64) * (P24 \div 64) + ts.n[2] \div 64)
      [] OTHER -> ts

\* ts & 0x3F: ToInt32 takes the integer part modulo 2^32 (0 for NaN, Infinity).
JsAnd3F(ts) ==
    CASE ts.k \in {"int", "frac"} -> JsInt(0, ts.n[2] % 64)
      [] OTHER -> JsInt(0, 0)

\* ts >>> 6: ToUint32 keeps the low 32 bits, then shifts.
JsShr6(ts) ==
    CASE ts.k \in {"int", "frac"} ->
            LET r == (ts.n[1] % 256) * (P24 \div 64) + ts.n[2] \div 64
            IN  JsInt(r \div P24, r % P24)
      [] OTHER -> JsInt(0, 0)

-----------------------------------------------------------------------------
(* Dictionary and lookup tables *)

\* The dictionary with '-' where the source has '_', as in the URL-safe Base64
\* alphabets: a variant that is not in byte order.
CHAR_DICT_STR_Dash ==
    << 48, 49, 50, 51, 52, 53, 54, 55, 56, 57,
       65, 66, 67, 68, 69, 70, 71, 72, 73, 74, 75, 76, 77,
       78, 79, 80, 81, 82, 83, 84, 85, 86, 87, 88, 89, 90,
       45,
       97, 98, 99, 100, 101, 102, 103, 104, 105, 106, 107, 108, 109,
       110, 111, 112, 113, 114, 115, 116, 117, 118, 119, 120, 121, 122,
       126 >>

\* CHAR_DICT_STR = '0123456789ABCDEFGHIJKLMNOPQRSTUVWXYZ_abcdefghijklmnopqrstuvwxyz~'
CHAR_DICT_STR ==
    << 48, 49, 50, 51, 52, 53, 54, 55, 56, 57,
       65, 66, 67, 68, 69, 70, 71, 72, 73, 74, 75, 76, 77,
       78, 79, 80, 81, 82, 83, 84, 85, 86, 87, 88, 89, 90,
       95,
       97, 98, 99, 100, 101, 102, 103, 104, 105, 106, 107, 108, 109,
       110, 111, 112, 113, 114, 115, 116, 117, 118, 119, 120, 121, 122,
       126 >>

\* CHAR_DICT[i] for a number i: undefined unless i is an index of the array.
CHAR_DICT(i) ==
    IF i.k = "int" /\ i.n[1] = 0 /\ i.n[2] < Len(CHAR_DICT_STR)
    THEN JsString(<<CHAR_DICT_STR[i.n[2] + 1]>>)
    ELSE undefined

\* The Int8Array of 128 entries: the index of a code's symbol, or -1.
ASCII_LOOKUP(code) ==
    IF \E i \in 1..Len(CHAR_DICT_STR) : CHAR_DICT_STR[i] = code
    THEN (CHOOSE i \in 1..Len(CHAR_DICT_STR) : CHAR_DICT_STR[i] = code) - 1
    ELSE -1

\* A variant of DOUBLE_CHAR_DICT with the symbol of the high 6 bits first.
DOUBLE_CHAR_DICT_HighFirst(i) ==
    <<CHAR_DICT_STR[((i \div 64) % 64) + 1], CHAR_DICT_STR[(i % 64) + 1]>>

\* DOUBLE_CHAR_DICT[i], 0 <= i < 4096: the symbols of the low and high 6 bits.
DOUBLE_CHAR_DICT(i) ==
    <<CHAR_DICT_STR[(i % 64) + 1], CHAR_DICT_STR[((i \div 64) % 64) + 1]>>

-----------------------------------------------------------------------------
(* Timestamp codec *)

\* What a call produced: a returned value or a thrown error.
Return(v) == [out |-> "return", v |-> v]
Throw(e) == [out |-> "throw", v |-> e]

\* A variant of DecodeVal that masks the code to the table's 128 entries instead
\* of rejecting codes above 127.
DecodeValMasked(code) == ASCII_LOOKUP(code % 128)

\* ASCII_LOOKUP[code] as decodeTime reads it: codes above 127 are rejected
\* before the table is indexed.
DecodeVal(code) == IF code > 127 THEN -1 ELSE ASCII_LOOKUP(code)

\* decodeTime(tid): null for a value that is falsy, not a string or shorter than
\* 8 characters (the empty string is the only falsy string), else the eight
\* steps ts = ts * 64 + val.
decodeTime(tid) ==
    IF tid.t # "string" \/ Len(tid.s) < 8 THEN null
    ELSE LET Step(ts, i) ==
                 \* ts is null once a character was rejected
                 IF ts.t = "null" THEN null
                 ELSE LET val == DecodeVal(tid.s[i])
                          lo == ts.n[2] * 64 + val
                      IN  IF val = -1 THEN null
                          ELSE JsInt(ts.n[1] * 64 + lo \div P24, lo % P24)
         IN  Step(Step(Step(Step(Step(Step(Step(Step(JsInt(0, 0),
                 1), 2), 3), 4), 5), 6), 7), 8)

\* typeof time === 'number' ? time : (time instanceof Date ? time.getTime() : null)
TimeValue(time) ==
    IF time.t \in {"number", "date"} THEN JsNumber(time.k, time.n[1], time.n[2])
    ELSE null

\* A variant of Rejected without the ts < 0 test.
RejectedNullOnly(ts) == ts.t = "null"

\* ts === null || ts < 0 (NaN < 0 is false)
Rejected(ts) == ts.t = "null" \/ ts.k = "neg"

\* The eight symbols of ts: two by % 64 and Math.floor(ts * DIV_64), six by
\* & 0x3F and >>>= 6, joined most significant first.
EncodeSymbols(ts0) ==
    LET c7 == CHAR_DICT(JsMod64(ts0))
        ts1 == JsFloorDiv64(ts0)
        c6 == CHAR_DICT(JsMod64(ts1))
        ts2 == JsFloorDiv64(ts1)
        c5 == CHAR_DICT(JsAnd3F(ts2))
        ts3 == JsShr6(ts2)
        c4 == CHAR_DICT(JsAnd3F(ts3))
        ts4 == JsShr6(ts3)
        c3 == CHAR_DICT(JsAnd3F(ts4))
        ts5 == JsShr6(ts4)
        c2 == CHAR_DICT(JsAnd3F(ts5))
        ts6 == JsShr6(ts5)
        c1 == CHAR_DICT(JsAnd3F(ts6))
        ts7 == JsShr6(ts6)
        c0 == CHAR_DICT(JsAnd3F(ts7))
    IN  JsAdd(JsAdd(JsAdd(JsAdd(JsAdd(JsAdd(JsAdd(c0, c1), c2), c3), c4), c5), c6), c7)

encodeTime(time) ==
    LET ts == TimeValue(time)
    IN  IF Rejected(ts) THEN Throw(TypeError) ELSE Return(EncodeSymbols(ts))

-----------------------------------------------------------------------------
(* PRNG: SFC32 on 32-bit words <<h, l>> *)

RECURSIVE Xor16(_, _, _)
\* The exclusive or of the low `bits` bits of x and y.
Xor16(x, y, bits) ==
    IF bits = 0 THEN 0
    ELSE ((x + y) % 2) + 2 * Xor16(x \div 2, y \div 2, bits - 1)

\* (x + y) | 0
Add32(x, y) ==
    LET l == x[2] + y[2]
    IN  <<(x[1] + y[1] + (l \div P16)) % P16, l % P16>>

\* x ^ y
Xor32(x, y) == <<Xor16(x[1], y[1], 16), Xor16(x[2], y[2], 16)>>

\* x >> 9, the shift that copies the sign bit: a variant of Shr9.
Sar9(x) ==
    <<(x[1] \div 2^9) + (IF x[1] >= 2^15 THEN (2^9 - 1) * 2^7 ELSE 0),
      ((x[1] % 2^9) * 2^7) + (x[2] \div 2^9)>>

\* x >>> 9
Shr9(x) == <<x[1] \div 2^9, ((x[1] % 2^9) * 2^7) + (x[2] \div 2^9)>>

\* x << 3
Shl3(x) == <<((x[1] * 2^3) % P16) + (x[2] \div 2^13), (x[2] * 2^3) % P16>>

\* (x << 21) | (x >>> 11)
Rotl21(x) ==
    <<((x[2] * 2^5) % P16) + (x[1] \div 2^11), ((x[1] % 2^11) * 2^5) + (x[2] \div 2^11)>>

One32 == <<0, 1>>

\* One round of the warm-up loop of seedSFC32.
WarmUpRound(S) ==
    LET t == Add32(S.a, S.b)
    IN  [a |-> Xor32(S.b, Shr9(S.b)),
         b |-> Add32(S.c, Shl3(S.c)),
         c |-> Add32(Rotl21(S.c), t),
         d |-> Add32(S.d, One32)]

RECURSIVE WarmUp(_, _)
WarmUp(S, rounds) == IF rounds = 0 THEN S ELSE WarmUp(WarmUpRound(S), rounds - 1)

WarmUpRounds == 15

\* The generator's state after module initialisation, from the three words
\* the clock and Math.random supply.
seedSFC32(now, rnd1, rnd2) ==
    WarmUp([a |-> now, b |-> rnd1, c |-> rnd2, d |-> One32], WarmUpRounds)

\* One draw: the state it leaves and the word it returns.
nextInt32(S) ==
    LET t == Add32(S.a, S.b)
        d1 == Add32(S.d, One32)
    IN  [st |-> [a |-> Xor32(S.b, Shr9(S.b)),
                 b |-> Add32(S.c, Shl3(S.c)),
                 c |-> Add32(Rotl21(S.c), t),
                 d |-> d1],
         r |-> Add32(t, d1)]

-----------------------------------------------------------------------------
(* Randomness generator *)

\* (r >>> 8) & 0xFFF: a variant of Shr12And0xFFF whose bits overlap those of
\* r & 0xFFF.
Shr8And0xFFF(r) == ((r[1] % 2^4) * 2^8) + (r[2] \div 2^8)

\* r & 0xFFF, (r >>> 12) & 0xFFF, r >>> 12 and r & 0x3F on a word.
And0xFFF(r) == r[2] % 2^12
Shr12And0xFFF(r) == ((r[1] % 2^8) * 2^4) + (r[2] \div 2^12)
Shr12(r) == <<r[1] \div 2^12, ((r[1] % 2^12) * 2^4) + (r[2] \div 2^12)>>
And0x3F(r) == r[2] % 64

\* The four symbols the fast paths take from one draw.
FourChars(r) == DOUBLE_CHAR_DICT(And0xFFF(r)) \o DOUBLE_CHAR_DICT(Shr12And0xFFF(r))

MinLength == 12
MaxLength == 1024
ParityLength == 21

\* FAST PATH 1: three draws, four symbols each.
newRND12(S) ==
    LET n1 == nextInt32(S)
        n2 == nextInt32(n1.st)
        n3 == nextInt32(n2.st)
    IN  [st |-> n3.st, str |-> FourChars(n1.r) \o FourChars(n2.r) \o FourChars(n3.r)]

\* A variant of newRND21 that takes the last symbol from bits 24..29 of the
\* fifth draw instead of drawing a sixth time.
newRND21Packed(S) ==
    LET n1 == nextInt32(S)
        n2 == nextInt32(n1.st)
        n3 == nextInt32(n2.st)
        n4 == nextInt32(n3.st)
        n5 == nextInt32(n4.st)
    IN  [st |-> n5.st,
         str |-> FourChars(n1.r) \o FourChars(n2.r) \o FourChars(n3.r)
                 \o FourChars(n4.r) \o FourChars(n5.r)
                 \o <<CHAR_DICT_STR[((n5.r[1] \div 2^8) % 64) + 1]>>]

\* FAST PATH 2: five draws of four symbols and a sixth draw for one symbol.
newRND21(S) ==
    LET n1 == nextInt32(S)
        n2 == nextInt32(n1.st)
        n3 == nextInt32(n2.st)
        n4 == nextInt32(n3.st)
        n5 == nextInt32(n4.st)
        n6 == nextInt32(n5.st)
    IN  [st |-> n6.st,
         str |-> FourChars(n1.r) \o FourChars(n2.r) \o FourChars(n3.r)
                 \o FourChars(n4.r) \o FourChars(n5.r)
                 \o <<CHAR_DICT_STR[And0x3F(n6.r) + 1]>>]

\* SLOW PATH: one pass through the body of the while loop, from the loop state
\* L = [i, str, st, done]; done is set by a break or by the loop's condition.
newRNDBody(len, L) ==
    IF L.done \/ ~(L.i < len) THEN [L EXCEPT !.done = TRUE]
    ELSE LET n == nextInt32(L.st)
         IN  IF L.i + 1 < len
             THEN LET str1 == L.str \o DOUBLE_CHAR_DICT(And0xFFF(n.r))
                      r1 == Shr12(n.r)
                  IN  IF L.i + 2 = len
                      THEN [i |-> L.i + 2, str |-> str1, st |-> n.st, done |-> TRUE]
                      ELSE IF L.i + 3 < len
                      THEN [i |-> L.i + 4,
                            str |-> str1 \o DOUBLE_CHAR_DICT(And0xFFF(r1)),
                            st |-> n.st, done |-> (L.i + 4 = len)]
                      ELSE [i |-> L.i + 2, str |-> str1, st |-> n.st, done |-> FALSE]
             ELSE [i |-> L.i, str |-> L.str \o <<CHAR_DICT_STR[And0x3F(n.r) + 1]>>,
                   st |-> n.st, done |-> TRUE]

RECURSIVE newRNDLoop(_, _, _)
\* The while loop: the body repeated until it is done.  Every pass that does not
\* end the loop adds at least two symbols, so `passes` = len passes end it; the
\* passes are split in halves to keep the evaluation shallow.
newRNDLoop(len, L, passes) ==
    IF passes = 0 \/ L.done THEN L
    ELSE IF passes = 1 THEN newRNDBody(len, L)
    ELSE newRNDLoop(len, newRNDLoop(len, L, passes \div 2), passes - (passes \div 2))

\* A variant of ClampLength without the cap at the maximum.
ClampLengthUncapped(length) == IF length < MinLength THEN MinLength ELSE length

\* The effective length of the slow path.
ClampLength(length) ==
    LET len == IF length < MinLength THEN MinLength ELSE length
    IN  IF len > MaxLength THEN MaxLength ELSE len

\* SLOW PATH: the clamp of the length and the while loop.
newRNDSlow(length, S) ==
    LET len == ClampLength(length)
        L == newRNDLoop(len, [i |-> 0, str |-> <<>>, st |-> S, done |-> FALSE], len + 1)
    IN  [st |-> L.st, str |-> L.str]

\* newRND(length) from generator state S: the state it leaves and the string.
newRND(length, S) ==
    IF length = MinLength THEN newRND12(S)
    ELSE IF length = ParityLength THEN newRND21(S)
    ELSE newRNDSlow(length, S)

-----------------------------------------------------------------------------
(* Identifier composer *)

\* A variant of newID that puts the delimiter after the suffix.
newIDDelimiterLast(dateTime, length, delimiter, S) ==
    LET tid == encodeTime(dateTime)
        rnd == newRND(length, S)
    IN  IF tid.out = "throw" THEN [st |-> S, res |-> tid]
        ELSE [st |-> rnd.st,
              res |-> Return(JsAdd(JsAdd(tid.v, JsString(rnd.str)), JsString(delimiter)))]

\* A variant of newID that generates the suffix before it encodes the time.
newIDDrawFirst(dateTime, length, delimiter, S) ==
    LET rnd == newRND(length, S)
        tid == encodeTime(dateTime)
    IN  IF tid.out = "throw" THEN [st |-> rnd.st, res |-> tid]
        ELSE [st |-> rnd.st,
              res |-> Return(JsAdd(JsAdd(tid.v, JsString(delimiter)), JsString(rnd.str)))]

\* TimeIDRandom.newID / newTIDr: encodeTime(dateTime) + delimiter + newRND(length).
\* encodeTime throws before any draw is made.
newID(dateTime, length, delimiter, S) ==
    LET tid == encodeTime(dateTime)
        rnd == newRND(length, S)
    IN  IF tid.out = "throw" THEN [st |-> S, res |-> tid]
        ELSE [st |-> rnd.st,
              res |-> Return(JsAdd(JsAdd(tid.v, JsString(delimiter)), JsString(rnd.str)))]

\* tidr.substring(from, to) for 0 <= from <= to: both ends are clamped to the
\* string's length.
Substring(s, from, to) ==
    LET a == IF from > Len(s) THEN Len(s) ELSE from
        b == IF to > Len(s) THEN Len(s) ELSE to
    IN  SubSeq(s, a + 1, b)

\* new TimeIDRandom(date, time, tid, randomness, delimiter): the fields the two
\* constructors set.
TimeIDRandom(date, time, tid, randomness, delimiter) ==
    [t |-> "TimeIDRandom", date |-> date, time |-> time, tID |-> tid,
     randomness |-> randomness, tIDr |-> tid \o delimiter \o randomness]

\* new Date(value) for a number: the time value is the integer part of a number
\* of magnitude up to 8.64e15 ms, else NaN.
NewDate(value) ==
    IF value.k \in {"int", "frac"}
       /\ ~NumLess(<<514984130, 14417920>>, value.n)
    THEN JsDate(JsInt(value.n[1], value.n[2]))
    ELSE JsDate(NaN)

\* dateTime > 0 for a number.
Positive(value) ==
    \/ value.k \in {"frac", "inf"}
    \/ value.k = "int" /\ value.n # <<0, 0>>

\* TimeIDRandom.newTimeIDr: the constructor's arguments are evaluated in order,
\* encodeTime before newRND; a value that is neither a Date nor a number above
\* zero reaches the throw.
newTimeIDr(dateTime, length, delimiter, S) ==
    IF dateTime.t = "date" \/ (dateTime.t = "number" /\ Positive(dateTime))
    THEN LET time == JsNumber(dateTime.k, dateTime.n[1], dateTime.n[2])
             date == IF dateTime.t = "date" THEN dateTime ELSE NewDate(dateTime)
             tid == encodeTime(time)
             rnd == newRND(length, S)
         IN  IF tid.out = "throw" THEN [st |-> S, res |-> tid]
             ELSE [st |-> rnd.st,
                   res |-> Return(TimeIDRandom(date, time, tid.v.s, rnd.str, delimiter))]
    ELSE [st |-> S, res |-> Throw(TypeError)]

\* A variant of decodeTimeIDr without the comparison of the delimiter.
decodeTimeIDrNoGuard(tidr, delimiter) ==
    IF tidr.t # "string" THEN Return(undefined)
    ELSE IF ~(Len(tidr.s) >= 8) THEN Throw(TypeError)
    ELSE LET timePart == Substring(tidr.s, 0, 8)
             ts == decodeTime(JsString(timePart))
         IN  IF ts.t = "null" THEN Return(undefined)
             ELSE Return(TimeIDRandom(JsDate(ts), ts, timePart,
                                      Substring(tidr.s, 8 + Len(delimiter), Len(tidr.s)),
                                      delimiter))

\* A variant of decodeTimeIDr whose randomness starts at character 8, the
\* delimiter included.
decodeTimeIDrFromEight(tidr, delimiter) ==
    IF tidr.t # "string" THEN Return(undefined)
    ELSE IF ~(Len(tidr.s) >= 8) THEN Throw(TypeError)
    ELSE LET timePart == Substring(tidr.s, 0, 8)
             ts == decodeTime(JsString(timePart))
         IN  IF ts.t = "null" THEN Return(undefined)
             ELSE IF Len(delimiter) > 0
                     /\ Substring(tidr.s, 8, 8 + Len(delimiter)) # delimiter
             THEN Return(undefined)
             ELSE Return(TimeIDRandom(JsDate(ts), ts, timePart,
                                      Substring(tidr.s, 8, Len(tidr.s)), delimiter))

\* TimeIDRandom.decodeTimeIDr / decodeTIDr / decodeID.  A value that is not a
\* string falls off the end of the function (undefined); a string shorter than
\* 8 characters reaches the throw.
decodeTimeIDr(tidr, delimiter) ==
    IF tidr.t # "string" THEN Return(undefined)
    ELSE IF ~(Len(tidr.s) >= 8) THEN Throw(TypeError)
    ELSE LET timePart == Substring(tidr.s, 0, 8)
             ts == decodeTime(JsString(timePart))
             startIndex == 8 + Len(delimiter)
         IN  IF ts.t = "null" THEN Return(undefined)
             ELSE IF Len(delimiter) > 0 /\ Substring(tidr.s, 8, startIndex) # delimiter
             THEN Return(undefined)
             ELSE Return(TimeIDRandom(JsDate(ts), ts, timePart,
                                      Substring(tidr.s, startIndex, Len(tidr.s)),
                                      delimiter))

-----------------------------------------------------------------------------
(* The calls a client makes *)

\* A length argument: given, or left to the parameter's default.
Length(v) == [given |-> TRUE, v |-> v]
NoLength == [given |-> FALSE, v |-> 0]
\* The default of `length = 12` in newRandomness, newTIDr and newID.
LengthOf(len) == IF len.given THEN len.v ELSE MinLength

PRNG == [a |-> _a, b |-> _b, c |-> _c, d |-> _d]

Call(op, arg, len, delimiter, pre, res) ==
    [op |-> op, arg |-> arg, len |-> len, delim |-> delimiter, pre |-> pre, res |-> res]

NoCall == Call("none", undefined, NoLength, <<>>, seedSFC32(One32, One32, One32),
               Return(undefined))

\* Times: integers as <<hi, lo>> = hi * 2^24 + lo.
Now == <<103234, 6383579>>
T44 == <<2^20, 0>>
T48 == <<P24, 0>>
TimeInts ==
    { <<0, 0>>, <<0, 1>>, <<0, 63>>, <<0, 64>>, <<0, 4095>>, <<0, 4096>>,
      <<0, P24 - 1>>, <<1, 0>>, <<255, P24 - 1>>, <<256, 0>>,
      Now, <<Now[1], Now[2] + 1>>,
      <<T44[1] - 1, P24 - 1>>, T44, <<T44[1], 1>>,
      <<T48[1] - 1, P24 - 1>>, T48, <<T48[1], 1>>,
      <<2^29 - 1, P24 - 1>> }

NotANumber == <<110, 111, 116, 32, 97, 32, 110, 117, 109, 98, 101, 114>>
OtherValues ==
    { JsString(NotANumber), JsString(<<>>), null, undefined,
      [t |-> "object", k |-> "", n |-> <<0, 0>>, s |-> <<>>],
      [t |-> "boolean", k |-> "", n |-> <<0, 0>>, s |-> <<>>] }

TimeArgs ==
    { JsInt(n[1], n[2]) : n \in TimeInts }
    \cup { JsNumber("neg", 0, 1), JsNumber("neg", 0, 100), NaN, Infinity,
           JsNumber("frac", 0, 1), JsNumber("frac", Now[1], Now[2]) }
    \cup { JsDate(JsInt(Now[1], Now[2])), JsDate(JsInt(T44[1], T44[2])),
           JsDate(NaN), JsDate(JsNumber("neg", 0, 1)) }
    \cup OtherValues

Suffixes ==
    { <<95, 115, 111, 109, 101, 82, 97, 110, 100, 111, 109, 83, 117, 102, 102, 105, 120>>,
      <<36, 8364, 32>> }

TidSamples ==
    { <<115, 104, 111, 114, 116>>,
      <<98, 97, 100, 36, 99, 104, 97, 114>>,
      <<48, 48, 48, 48, 48, 48, 48>>,
      <<48, 48, 48, 48, 48, 48, 48, 48>>,
      <<126, 126, 126, 126, 126, 126, 126, 126>>,
      <<126, 126, 126, 126, 126, 126, 126, 127>>,
      <<48, 48, 48, 48, 48, 48, 48, 47>>,
      <<233, 48, 48, 48, 48, 48, 48, 48>>,
      <<48, 48, 48, 8364, 48, 48, 48, 48>>,
      <<48, 48, 48, 48, 48, 48, 48, 128>>,
      <<48, 49, 65, 90, 95, 97, 122, 126, 36, 233>>,
      <<48, 49, 65, 90, 95, 97, 122, 45, 48, 48>> }

\* What a client passes to decodeTime: sample values, the string the last call
\* returned (alone or followed by a suffix), or the first 8 characters of the
\* string it last decoded.
TidArgs ==
    { JsString(t) : t \in TidSamples }
    \cup { JsInt(0, 12345678) } \cup OtherValues
    \cup (IF call.res.out = "return" /\ call.res.v.t = "string"
          THEN { call.res.v } \cup { JsString(call.res.v.s \o x) : x \in Suffixes }
          ELSE {})
    \cup (IF call.op = "decodeTime" /\ call.arg.t = "string" /\ Len(call.arg.s) > 8
          THEN { JsString(SubSeq(call.arg.s, 1, 8)) }
          ELSE {})

LengthArgs ==
    { NoLength }
    \cup { Length(v) : v \in {-1, 0, 5, 11, 12, 13, 14, 15, 16, 21,
                              1023, 1024, 1025} }

IDTimeArgs ==
    { JsInt(n[1], n[2]) : n \in { Now, <<Now[1], Now[2] + 1>>,
                                   <<T44[1] - 1, P24 - 1>>, T44 } }
    \cup { JsDate(JsInt(Now[1], Now[2])), JsNumber("neg", 0, 1) }
IDLengthArgs == { NoLength, Length(5), Length(13) }
Delimiters == { <<>>, <<45>>, <<126, 95>> }

\* The delimiters a client passes to decodeID: those of newID and "~", the first
\* character of "~_".
DecodeDelimiters == Delimiters \cup { <<126>> }

\* Texts a client passes to decodeID besides identifiers: "", "short",
\* "00000000", "bad$char", "01AZ_az~$e-acute", "00000000-" and "0000000~~_".
IDTextSamples ==
    { <<>>,
      <<115, 104, 111, 114, 116>>,
      <<48, 48, 48, 48, 48, 48, 48, 48>>,
      <<98, 97, 100, 36, 99, 104, 97, 114>>,
      <<48, 49, 65, 90, 95, 97, 122, 126, 36, 233>>,
      <<48, 48, 48, 48, 48, 48, 48, 48, 45>>,
      <<48, 48, 48, 48, 48, 48, 48, 126, 126, 95>> }

\* The identifier the last call returned, if it was a newID that returned.
LastID ==
    IF call.op = "newID" /\ call.res.out = "return" /\ call.res.v.t = "string"
    THEN { call.res.v }
    ELSE {}

\* What a client passes to decodeID: the identifier the last call returned with
\* any of the delimiters, or a sample text or a value that is not a string with
\* no delimiter or with "-".
DecodeIDArgs ==
    { <<tidr, delimiter>> : tidr \in LastID, delimiter \in DecodeDelimiters }
    \cup { <<tidr, delimiter>> :
             tidr \in { JsString(t) : t \in IDTextSamples }
                      \cup { null, undefined, JsInt(0, 12345678) },
             delimiter \in { <<>>, <<45>> } }

\* What a client passes to newID: every time with the default length and no
\* delimiter, the current time with every length and delimiter, and the time
\* 2^44 with a length and a delimiter.
NewIDArgs ==
    { <<dateTime, NoLength, <<>>>> : dateTime \in IDTimeArgs }
    \cup { <<JsInt(Now[1], Now[2]), len, delimiter>> :
             len \in IDLengthArgs, delimiter \in Delimiters }
    \cup { <<JsInt(T44[1], T44[2]), Length(13), <<45>>>> }

Seeds ==
    { <<<<16993, 26587>>, <<4660, 22136>>, <<39612, 57072>>>>,
      <<<<65535, 65535>>, <<32768, 0>>, <<1, 65535>>>> }

Init ==
    /\ \E seed \in Seeds :
           LET S == seedSFC32(seed[1], seed[2], seed[3])
           IN  _a = S.a /\ _b = S.b /\ _c = S.c /\ _d = S.d
    /\ call = NoCall
    /\ prev = NoCall
    /\ calls = 0

\* timeID.encodeTime(time), also timeID.newID(time) and timeID.newTID(time).
EncodeTime(time) ==
    /\ calls < MaxCalls
    /\ call' = Call("encodeTime", time, NoLength, <<>>, PRNG, encodeTime(time))
    /\ prev' = call
    /\ calls' = calls + 1
    /\ UNCHANGED <<_a, _b, _c, _d>>

\* timeID.decodeTime(tid).
DecodeTime(tid) ==
    /\ calls < MaxCalls
    /\ call' = Call("decodeTime", tid, NoLength, <<>>, PRNG, Return(decodeTime(tid)))
    /\ prev' = call
    /\ calls' = calls + 1
    /\ UNCHANGED <<_a, _b, _c, _d>>

\* timeIDr.newRandomness(length).
NewRandomness(len) ==
    /\ calls < MaxCalls
    /\ \E rnd \in {newRND(LengthOf(len), PRNG)} :
           /\ call' = Call("newRandomness", undefined, len, <<>>, PRNG,
                           Return(JsString(rnd.str)))
           /\ _a' = rnd.st.a /\ _b' = rnd.st.b /\ _c' = rnd.st.c /\ _d' = rnd.st.d
    /\ prev' = call
    /\ calls' = calls + 1

\* timeIDr.newID(dateTime, length, delimiter), also timeIDr.newTIDr.
NewID(dateTime, len, delimiter) ==
    /\ calls < MaxCalls
    /\ \E id \in {newID(dateTime, LengthOf(len), delimiter, PRNG)} :
           /\ call' = Call("newID", dateTime, len, delimiter, PRNG, id.res)
           /\ _a' = id.st.a /\ _b' = id.st.b /\ _c' = id.st.c /\ _d' = id.st.d
    /\ prev' = call
    /\ calls' = calls + 1

\* timeIDr.newTimeIDr(dateTime, length, delimiter).
NewTimeIDr(dateTime, len, delimiter) ==
    /\ calls < MaxCalls
    /\ \E id \in {newTimeIDr(dateTime, LengthOf(len), delimiter, PRNG)} :
           /\ call' = Call("newTimeIDr", dateTime, len, delimiter, PRNG, id.res)
           /\ _a' = id.st.a /\ _b' = id.st.b /\ _c' = id.st.c /\ _d' = id.st.d
    /\ prev' = call
    /\ calls' = calls + 1

\* A variant of DecodeID that makes a draw.
DecodeIDDrawing(tidr, delimiter) ==
    /\ calls < MaxCalls
    /\ call' = Call("decodeID", tidr, NoLength, delimiter, PRNG,
                    decodeTimeIDr(tidr, delimiter))
    /\ \E n \in {nextInt32(PRNG)} :
           _a' = n.st.a /\ _b' = n.st.b /\ _c' = n.st.c /\ _d' = n.st.d
    /\ prev' = call
    /\ calls' = calls + 1

\* timeIDr.decodeID(tidr, delimiter), also decodeTIDr and decodeTimeIDr.
DecodeID(tidr, delimiter) ==
    /\ calls < MaxCalls
    /\ call' = Call("decodeID", tidr, NoLength, delimiter, PRNG,
                    decodeTimeIDr(tidr, delimiter))
    /\ prev' = call
    /\ calls' = calls + 1
    /\ UNCHANGED <<_a, _b, _c, _d>>

\* A client of the timestamp codec.
NextCodec ==
    \/ \E time \in TimeArgs : EncodeTime(time)
    \/ \E tid \in TidArgs : DecodeTime(tid)

\* A client of the randomness generator.
NextRandom == \E len \in LengthArgs : NewRandomness(len)

\* A client of the identifier composer.
NextID ==
    \/ \E args \in NewIDArgs : NewID(args[1], args[2], args[3])
    \/ \E args \in DecodeIDArgs : DecodeID(args[1], args[2])

\* What a client of the whole API passes: a few arguments of each operation,
\* accepted and rejected ones.
ClientTimeArgs ==
    { JsInt(Now[1], Now[2]), JsDate(JsInt(Now[1], Now[2])), NaN,
      JsNumber("neg", 0, 1), null }
ClientTidArgs ==
    { JsString(<<48, 48, 48, 48, 48, 48, 48, 48>>),
      JsString(<<115, 104, 111, 114, 116>>), null }
ClientLengthArgs == { NoLength, Length(13), Length(21) }
ClientNewIDArgs ==
    { <<JsInt(Now[1], Now[2]), NoLength, <<45>>>>,
      <<JsInt(Now[1], Now[2]), Length(21), <<>>>>,
      <<JsNumber("neg", 0, 1), NoLength, <<>>>>,
      <<null, Length(13), <<45>>>> }
ClientDecodeIDArgs ==
    { <<tidr, delimiter>> : tidr \in LastID, delimiter \in { <<>>, <<45>> } }
    \cup { <<JsString(<<115, 104, 111, 114, 116>>), <<>>>>,
           <<JsString(<<98, 97, 100, 36, 99, 104, 97, 114>>), <<>>>>,
           <<JsString(<<48, 48, 48, 48, 48, 48, 48, 48, 45>>), <<45>>>>,
           <<null, <<>>>> }

ClientNewTimeIDrArgs ==
    { <<JsInt(Now[1], Now[2]), NoLength, <<>>>>,
      <<JsDate(JsInt(Now[1], Now[2])), Length(13), <<45>>>>,
      <<JsInt(0, 0), NoLength, <<>>>>,
      <<JsNumber("neg", 0, 1), NoLength, <<45>>>>,
      <<JsDate(JsNumber("neg", 0, 1)), Length(21), <<>>>>,
      <<NaN, NoLength, <<>>>>,
      <<null, Length(13), <<>>>> }

\* A client of the whole API: timeID and timeIDr.
NextClient ==
    \/ \E time \in ClientTimeArgs : EncodeTime(time)
    \/ \E tid \in ClientTidArgs : DecodeTime(tid)
    \/ \E len \in ClientLengthArgs : NewRandomness(len)
    \/ \E args \in ClientNewIDArgs : NewID(args[1], args[2], args[3])
    \/ \E args \in ClientNewTimeIDrArgs : NewTimeIDr(args[1], args[2], args[3])
    \/ \E args \in ClientDecodeIDArgs : DecodeID(args[1], args[2])

Next == NextCodec \/ NextRandom \/ NextID

SpecCodec == Init /\ [][NextCodec]_vars
SpecRandom == Init /\ [][NextRandom]_vars
SpecID == Init /\ [][NextID]_vars
SpecClient == Init /\ [][NextClient]_vars
Spec == Init /\ [][Next]_vars

-----------------------------------------------------------------------------
(* Properties *)

\* The 64 symbols 0-9, A-Z, '_', a-z, '~' as character codes.
AlphabetCodes == (48..57) \cup (65..90) \cup {95} \cup (97..122) \cup {126}
AlphabetInOrder ==
    [i \in 1..10 |-> 47 + i] \o [i \in 1..26 |-> 64 + i] \o <<95>>
    \o [i \in 1..26 |-> 96 + i] \o <<126>>

\* A timestamp in the 48-bit range: an integer t with 0 <= t < 2^48.
IsTime48(v) == v.t = "number" /\ v.k = "int" /\ v.n[1] < P24

IsPrefix(s1, s2) == Len(s1) <= Len(s2) /\ SubSeq(s2, 1, Len(s1)) = s1

\* C1: for every integer t with 0 <= t < 2^48, encodeTime(t) returns and
\* decodeTime of the string it returned is exactly t.
C1_RoundTrip ==
    /\ (call.op = "encodeTime" /\ IsTime48(call.arg)) => call.res.out = "return"
    /\ (/\ call.op = "decodeTime" /\ prev.op = "encodeTime"
        /\ IsTime48(prev.arg) /\ prev.res.out = "return"
        /\ call.arg = prev.res.v)
       => call.res = Return(prev.arg)

\* C2: for timestamps t1 < t2 in the 48-bit range, encodeTime(t1) sorts strictly
\* before encodeTime(t2), code unit by code unit.
C2_Monotone ==
    (/\ call.op = "encodeTime" /\ prev.op = "encodeTime"
     /\ IsTime48(prev.arg) /\ IsTime48(call.arg))
    => /\ prev.res.out = "return" /\ call.res.out = "return"
       /\ NumLess(prev.arg.n, call.arg.n) => StrLess(prev.res.v.s, call.res.v.s)
       /\ NumLess(call.arg.n, prev.arg.n) => StrLess(call.res.v.s, prev.res.v.s)

\* The time of a newID argument in the 48-bit range: a number or a Date.
IsIDTime48(v) == v.t \in {"number", "date"} /\ v.k = "int" /\ v.n[1] < P24

\* C3: of two identifiers generated by newID for timestamps t1 < t2 in the
\* 48-bit range, the one for t1 sorts strictly before the one for t2, whatever
\* the suffixes, the suffix lengths and the delimiters.
C3_IDsSorted ==
    (/\ call.op = "newID" /\ prev.op = "newID"
     /\ IsIDTime48(prev.arg) /\ IsIDTime48(call.arg))
    => /\ prev.res.out = "return" /\ call.res.out = "return"
       /\ NumLess(prev.arg.n, call.arg.n) => StrLess(prev.res.v.s, call.res.v.s)
       /\ NumLess(call.arg.n, prev.arg.n) => StrLess(call.res.v.s, prev.res.v.s)

\* C4: the dictionary is exactly the 64 symbols 0-9, A-Z, '_', a-z, '~' in that
\* order, all distinct, each of a smaller byte value than the next; the encoder
\* writes a digit d as the symbol at position d of that sequence.
C4_Alphabet ==
    /\ (call.op = "encodeTime" /\ IsTime48(call.arg) /\ call.res.out = "return")
       => \A i \in 1..Len(call.res.v.s) : call.res.v.s[i] \in AlphabetCodes
    /\ (call.op = "encodeTime" /\ IsTime48(call.arg) /\ call.arg.n[1] = 0
        /\ call.arg.n[2] < 64 /\ call.res.out = "return")
       => call.res.v.s[Len(call.res.v.s)] = AlphabetInOrder[call.arg.n[2] + 1]
    /\ CHAR_DICT_STR = AlphabetInOrder
    /\ Len(CHAR_DICT_STR) = 64
    /\ \A i, j \in 1..Len(CHAR_DICT_STR) : i # j => CHAR_DICT_STR[i] # CHAR_DICT_STR[j]
    /\ \A i \in 1..(Len(CHAR_DICT_STR) - 1) : CHAR_DICT_STR[i] < CHAR_DICT_STR[i + 1]

\* C4's case: an encoding that uses the first and the last symbol, "0000000~".
C4_Witness ==
    /\ call.op = "encodeTime" /\ call.arg = JsInt(0, 63)
    /\ call.res = Return(JsString(<<48, 48, 48, 48, 48, 48, 48, 126>>))

\* C5: whenever encodeTime returns, for any input, it returns a string of
\* exactly 8 characters, each a symbol of the alphabet.
C5_EightSymbols ==
    (call.op = "encodeTime" /\ call.res.out = "return")
    => /\ call.res.v.t = "string"
       /\ Len(call.res.v.s) = 8
       /\ \A i \in 1..Len(call.res.v.s) : call.res.v.s[i] \in AlphabetCodes

\* C6: for every integer length n, newRandomness(n) returns a string of exactly
\* clamp(n, 12, 1024) characters, and of 12 characters when called with no
\* argument.
C6_SuffixLength ==
    call.op = "newRandomness"
    => /\ call.res.out = "return"
       /\ call.res.v.t = "string"
       /\ Len(call.res.v.s) =
              (IF ~call.len.given \/ call.len.v < 12 THEN 12
               ELSE IF call.len.v > 1024 THEN 1024
               ELSE call.len.v)

\* C6's case: a length above the maximum was asked for and 1024 symbols came back.
C6_Witness ==
    /\ call.op = "newRandomness" /\ call.len.given /\ call.len.v > 1024
    /\ call.res.out = "return" /\ Len(call.res.v.s) = 1024
    /\ prev.op = "newRandomness" /\ prev.len.given /\ prev.len.v < 12
    /\ Len(prev.res.v.s) = 12

\* C7: encodeTime throws a TypeError, and returns nothing, for a negative
\* number and for any value that is neither a number nor a Date.
C7_InvalidInput ==
    (/\ call.op = "encodeTime"
     /\ \/ (call.arg.t = "number" /\ call.arg.k = "neg")
        \/ call.arg.t \notin {"number", "date"})
    => call.res = Throw(TypeError)

\* C7's case: a negative number was refused after a string was.
C7_Witness ==
    /\ call.op = "encodeTime" /\ call.arg.t = "number" /\ call.arg.k = "neg"
    /\ call.res.out = "throw"
    /\ prev.op = "encodeTime" /\ prev.arg.t = "string" /\ prev.res.out = "throw"

\* C8: encodeTime throws a TypeError for a number that is NaN, Infinity or has a
\* fractional part, and for a Date whose time value is NaN.
C8_RejectsNonInteger ==
    (/\ call.op = "encodeTime"
     /\ \/ (call.arg.t = "number" /\ call.arg.k \in {"nan", "inf", "frac"})
        \/ (call.arg.t = "date" /\ call.arg.k = "nan"))
    => call.res = Throw(TypeError)

\* The inputs decodeTime has no value for: not a string, fewer than 8
\* characters, or a character outside the alphabet among the first 8.
Undecodable(tid) ==
    \/ tid.t # "string"
    \/ Len(tid.s) < 8
    \/ \E i \in 1..8 : tid.s[i] \notin AlphabetCodes

\* C9: decodeTime never throws; it returns null for an input that is missing,
\* not a string, shorter than 8 characters or has a character outside the
\* alphabet among its first 8 (codes above 127 included), and a non-negative
\* integer for every other input.
C9_DecodeTotal ==
    call.op = "decodeTime"
    => /\ call.res.out = "return"
       /\ IF Undecodable(call.arg) THEN call.res.v = null
          ELSE /\ call.res.v.t = "number" /\ call.res.v.k = "int"
               /\ call.res.v.n[1] \in 0..(P24 - 1) /\ call.res.v.n[2] \in 0..(P24 - 1)

\* C9's case: a string with a code above 127 among its first 8 characters gave
\* null, after a string of 8 symbols gave a number.
C9_Witness ==
    /\ call.op = "decodeTime" /\ call.arg.t = "string" /\ Len(call.arg.s) >= 8
    /\ \E i \in 1..8 : call.arg.s[i] > 127
    /\ call.res = Return(null)
    /\ prev.op = "decodeTime" /\ ~Undecodable(prev.arg) /\ prev.res.v.t = "number"

\* C10: for a string of at least 8 characters decodeTime gives what it gives for
\* the first 8 characters alone; in particular decodeTime(encodeTime(t) + x) is
\* t for every timestamp t in the 48-bit range and every string x.
C10_PrefixDecode ==
    /\ (/\ call.op = "decodeTime" /\ prev.op = "decodeTime"
        /\ call.arg.t = "string" /\ prev.arg.t = "string"
        /\ Len(prev.arg.s) >= 8 /\ call.arg.s = SubSeq(prev.arg.s, 1, 8))
       => call.res = prev.res
    /\ (/\ call.op = "decodeTime" /\ prev.op = "encodeTime"
        /\ IsTime48(prev.arg) /\ prev.res.out = "return" /\ prev.res.v.t = "string"
        /\ call.arg.t = "string" /\ IsPrefix(prev.res.v.s, call.arg.s))
       => call.res = Return(prev.arg)

\* A time newID accepts: a non-negative integer, as a number or as a Date.
IsValidTime(v) == v.t \in {"number", "date"} /\ v.k = "int"

\* C11: for every valid time t, integer suffix length n and delimiter d,
\* newID(t, n, d) is encodeTime(t) followed by d followed by a suffix freshly
\* drawn from the generator: its first 8 characters are encodeTime(t), the next
\* |d| are d, and its length is 8 + |d| + clamp(n, 12, 1024).
C11_Compose ==
    (call.op = "newID" /\ IsValidTime(call.arg))
    => LET d == call.delim
           tid == encodeTime(call.arg)
           rnd == newRND(LengthOf(call.len), call.pre)
       IN  /\ call.res.out = "return" /\ call.res.v.t = "string"
           /\ tid.out = "return"
           /\ SubSeq(call.res.v.s, 1, 8) = tid.v.s
           /\ SubSeq(call.res.v.s, 9, 8 + Len(d)) = d
           /\ Len(call.res.v.s) = 8 + Len(d) + ClampLength(LengthOf(call.len))
           /\ SubSeq(call.res.v.s, 9 + Len(d), Len(call.res.v.s)) = rnd.str
           /\ PRNG = rnd.st

\* C11's case: newID with a requested length below the minimum and the
\* two-character delimiter "~_" returned 8 + 2 + 12 characters.
C11_Witness ==
    /\ call.op = "newID" /\ IsValidTime(call.arg)
    /\ call.len = Length(5) /\ call.delim = <<126, 95>>
    /\ call.res.out = "return" /\ Len(call.res.v.s) = 22
    /\ PRNG # call.pre

\* decodeID is called with the identifier the previous call, a newID, returned.
DecodesLastID ==
    /\ call.op = "decodeID" /\ prev.op = "newID"
    /\ prev.res.out = "return" /\ prev.res.v.t = "string"
    /\ call.arg = prev.res.v

\* C12: for every timestamp t in the 48-bit range, suffix length n and
\* delimiter d, decodeID(newID(t, n, d), d) returns a record whose time and date
\* are t and whose randomness is exactly the suffix that was generated, of
\* clamp(n, 12, 1024) symbols.
C12_ComposeParse ==
    (DecodesLastID /\ IsIDTime48(prev.arg) /\ call.delim = prev.delim)
    => /\ call.res.out = "return" /\ call.res.v.t = "TimeIDRandom"
       /\ call.res.v.time = JsInt(prev.arg.n[1], prev.arg.n[2])
       /\ call.res.v.date = JsDate(JsInt(prev.arg.n[1], prev.arg.n[2]))
       /\ call.res.v.randomness = newRND(LengthOf(prev.len), prev.pre).str
       /\ Len(call.res.v.randomness) = ClampLength(LengthOf(prev.len))

\* C13: for every identifier composed with a delimiter d1 (possibly empty) and
\* every non-empty delimiter d2 different from d1, decodeID(identifier, d2)
\* returns undefined rather than a record.
C13_DelimiterGuard ==
    (DecodesLastID /\ call.delim # <<>> /\ call.delim # prev.delim)
    => call.res = Return(undefined)

\* C13, amended: for every identifier composed with a delimiter d1 and every
\* non-empty delimiter d2 that is not a prefix of d1 followed by the generated
\* suffix, decodeID(identifier, d2) returns undefined; when d2 is such a prefix
\* (as "~" is of "~_") a record is returned.
C13_DelimiterGuardAmended ==
    (DecodesLastID /\ call.delim # <<>>)
    => LET rest == SubSeq(prev.res.v.s, 9, Len(prev.res.v.s))
       IN  /\ rest = prev.delim \o newRND(LengthOf(prev.len), prev.pre).str
           /\ IF IsPrefix(call.delim, rest)
              THEN call.res.out = "return" /\ call.res.v.t = "TimeIDRandom"
              ELSE call.res = Return(undefined)

\* C13's case: an identifier composed with "-" was decoded with "~_" and gave
\* undefined.
C13_Witness ==
    /\ DecodesLastID /\ prev.delim = <<45>> /\ call.delim = <<126, 95>>
    /\ call.res = Return(undefined)

\* C14: decodeID never throws on undecodable input: for a string of fewer than
\* 8 characters (the empty string included), a string whose first 8 characters
\* do not decode, or a value that is not a string, it returns undefined.
C14_DecodeIDTotal ==
    call.op = "decodeID"
    => /\ call.res.out = "return"
       /\ Undecodable(call.arg) => call.res = Return(undefined)

\* C15: when decodeID(text, d) succeeds, the randomness of the record is the
\* characters of text from position 8 + |d| to the end, taken as they are (no
\* check against the alphabet, any length, zero included), and its time is
\* decodeTime of characters 0..7; it succeeds whenever the first 8 characters
\* decode and d is empty or follows them.
C15_RandomnessVerbatim ==
    /\ (call.op = "decodeID" /\ call.res.out = "return"
        /\ call.res.v.t = "TimeIDRandom")
       => /\ call.arg.t = "string" /\ Len(call.arg.s) >= 8
          /\ call.res.v.randomness
                = SubSeq(call.arg.s, 8 + Len(call.delim) + 1, Len(call.arg.s))
          /\ call.res.v.time = decodeTime(JsString(SubSeq(call.arg.s, 1, 8)))
          /\ call.res.v.time.t = "number"
    /\ (call.op = "decodeID" /\ ~Undecodable(call.arg)
        /\ IsPrefix(call.delim, SubSeq(call.arg.s, 9, Len(call.arg.s))))
       => call.res.out = "return" /\ call.res.v.t = "TimeIDRandom"

\* C15's case: "01AZ_az~" followed by '$' and e-acute decoded with the empty
\* delimiter: the two characters outside the alphabet are the randomness.
C15_Witness ==
    /\ call.op = "decodeID" /\ call.delim = <<>>
    /\ call.arg = JsString(<<48, 49, 65, 90, 95, 97, 122, 126, 36, 233>>)
    /\ call.res.out = "return" /\ call.res.v.t = "TimeIDRandom"
    /\ call.res.v.randomness = <<36, 233>>

\* floor(t / 64^j) mod 64 for t = n[1] * 2^24 + n[2] and j in 0..7: the j-th
\* 6-bit chunk of t, 2^24 being 64^4.
Chunk(n, j) ==
    IF j < 4 THEN (n[2] \div (64^j)) % 64 ELSE (n[1] \div (64^(j - 4))) % 64

\* C16: for every integer t with 0 <= t < 2^48 and every position k in 0..7,
\* character k of encodeTime(t) is the symbol of floor(t / 64^(7-k)) mod 64: the
\* eight 6-bit chunks of t, most significant first, each of a full 6 bits.
C16_Chunks ==
    (call.op = "encodeTime" /\ IsTime48(call.arg))
    => /\ call.res.out = "return" /\ call.res.v.t = "string"
       /\ Len(call.res.v.s) = 8
       /\ \A k \in 0..7 :
              call.res.v.s[k + 1] = AlphabetInOrder[Chunk(call.arg.n, 7 - k) + 1]

\* C17: timestamps at or beyond 2^48 wrap at the 48-bit boundary: for every
\* non-negative integer t, encodeTime(t) = encodeTime(t mod 2^48); and no
\* wrap-around occurs below 2^48: two different values below 2^48 have different
\* encodings.
C17_Wrap48 ==
    (/\ call.op = "encodeTime" /\ prev.op = "encodeTime"
     /\ call.arg.t = "number" /\ call.arg.k = "int"
     /\ prev.arg.t = "number" /\ prev.arg.k = "int")
    => /\ prev.arg.n = <<call.arg.n[1] % P24, call.arg.n[2]>>
          => call.res = prev.res
       /\ (IsTime48(call.arg) /\ IsTime48(prev.arg) /\ call.arg.n # prev.arg.n)
          => call.res # prev.res

\* The 32 bits of a word, least significant first.
RECURSIVE BitsOf(_, _)
BitsOf(n, k) == IF k = 0 THEN <<>> ELSE <<n % 2>> \o BitsOf(n \div 2, k - 1)
WordBits(w) == BitsOf(w[2], 16) \o BitsOf(w[1], 16)
StateBits(S) ==
    [a |-> WordBits(S.a), b |-> WordBits(S.b), c |-> WordBits(S.c), d |-> WordBits(S.d)]

\* Arithmetic modulo 2^32 on bit sequences: x + y by carries, x xor y, the
\* logical shifts and the rotation.
RECURSIVE SumBits(_, _, _)
SumBits(x, y, carry) ==
    IF x = <<>> THEN <<>>
    ELSE <<(Head(x) + Head(y) + carry) % 2>>
         \o SumBits(Tail(x), Tail(y), (Head(x) + Head(y) + carry) \div 2)
AddMod32(x, y) == SumBits(x, y, 0)
XorBits(x, y) == [i \in 1..32 |-> (x[i] + y[i]) % 2]
Zeros(k) == [i \in 1..k |-> 0]
ShiftRight(x, k) == SubSeq(x, k + 1, 32) \o Zeros(k)
ShiftLeft(x, k) == Zeros(k) \o SubSeq(x, 1, 32 - k)
RotateLeft(x, k) == SubSeq(x, 32 - k + 1, 32) \o SubSeq(x, 1, 32 - k)
OneBits == <<1>> \o Zeros(31)

\* One advance of SFC32 as the specification states it, and the draw it returns.
Advance(B) ==
    LET t == AddMod32(B.a, B.b)
    IN  [a |-> XorBits(B.b, ShiftRight(B.b, 9)),
         b |-> AddMod32(B.c, ShiftLeft(B.c, 3)),
         c |-> AddMod32(RotateLeft(B.c, 21), t),
         d |-> AddMod32(B.d, OneBits)]
DrawOf(B) == AddMod32(AddMod32(B.a, B.b), AddMod32(B.d, OneBits))

RECURSIVE AdvanceTimes(_, _)
AdvanceTimes(B, n) == IF n = 0 THEN B ELSE AdvanceTimes(Advance(B), n - 1)

\* The symbol of the 6-bit field f (bits 6f .. 6f+5) of a draw, and the four
\* symbols of fields 0..3.
FieldSymbol(bits, f) ==
    AlphabetInOrder[1 + bits[6 * f + 1] + 2 * bits[6 * f + 2] + 4 * bits[6 * f + 3]
                      + 8 * bits[6 * f + 4] + 16 * bits[6 * f + 5] + 32 * bits[6 * f + 6]]
DrawSymbols(bits) ==
    <<FieldSymbol(bits, 0), FieldSymbol(bits, 1), FieldSymbol(bits, 2), FieldSymbol(bits, 3)>>

\* C18: each draw maps (a, b, c, d) to (b xor (b >>> 9), c + (c << 3),
\* rotl(c, 21) + t, d + 1) with t = a + b, all modulo 2^32 and from the old
\* a, b, c, and returns t + d' modulo 2^32; seeding sets d = 1 and applies the
\* same transition 15 times.  Observed on newRandomness(12) (three draws) and
\* newRandomness(21) (six draws): the state after the call and the symbols taken
\* from each draw are those of the stated transition.
C18_Draw ==
    /\ calls = 0
       => \E seed \in Seeds :
              StateBits(PRNG)
                = AdvanceTimes([a |-> WordBits(seed[1]), b |-> WordBits(seed[2]),
                                c |-> WordBits(seed[3]), d |-> OneBits], 15)
    /\ (call.op = "newRandomness" /\ LengthOf(call.len) = 12)
       => LET B == StateBits(call.pre)
          IN  /\ StateBits(PRNG) = AdvanceTimes(B, 3)
              /\ call.res.v.s = DrawSymbols(DrawOf(B))
                                 \o DrawSymbols(DrawOf(AdvanceTimes(B, 1)))
                                 \o DrawSymbols(DrawOf(AdvanceTimes(B, 2)))
    /\ (call.op = "newRandomness" /\ LengthOf(call.len) = 21)
       => LET B == StateBits(call.pre)
          IN  /\ StateBits(PRNG) = AdvanceTimes(B, 6)
              /\ call.res.v.s = DrawSymbols(DrawOf(B))
                                 \o DrawSymbols(DrawOf(AdvanceTimes(B, 1)))
                                 \o DrawSymbols(DrawOf(AdvanceTimes(B, 2)))
                                 \o DrawSymbols(DrawOf(AdvanceTimes(B, 3)))
                                 \o DrawSymbols(DrawOf(AdvanceTimes(B, 4)))
                                 \o <<FieldSymbol(DrawOf(AdvanceTimes(B, 5)), 0)>>

\* C18's case: a second call, newRandomness(21), whose first draw has its top
\* bit set (a negative signed word), advanced the state by six draws.
C18_Witness ==
    /\ call.op = "newRandomness" /\ call.len = Length(21)
    /\ prev.op = "newRandomness"
    /\ DrawOf(StateBits(call.pre))[32] = 1
    /\ StateBits(PRNG) = AdvanceTimes(StateBits(call.pre), 6)
    /\ PRNG # call.pre

\* C19: from the same generator state, the fast path for length 12 and the fast
\* path for length 21 give the same string and leave the same state (the same
\* number of draws) as the general loop run with effective length 12 (as for a
\* requested length of 5) and 21.
C19_FastPaths ==
    /\ newRND12(PRNG) = newRNDSlow(MinLength, PRNG)
    /\ newRND21(PRNG) = newRNDSlow(ParityLength, PRNG)
    /\ (/\ call.op = "newRandomness" /\ LengthOf(call.len) # MinLength
        /\ ClampLength(LengthOf(call.len)) = MinLength)
       => [st |-> PRNG, str |-> call.res.v.s] = newRND12(call.pre)

\* C19's case: newRandomness(5) ran the general loop for 12 symbols from the
\* state a newRandomness(21) left, and gave what the fast path for 12 gives.
C19_Witness ==
    /\ call.op = "newRandomness" /\ call.len = Length(5)
    /\ prev.op = "newRandomness" /\ prev.len = Length(21)
    /\ call.res.v.s = newRND12(call.pre).str
    /\ Len(call.res.v.s) = 12

\* The operations that make no draw, and the number of draws between a state
\* and the current one as the counter word d tells it.
PureOps == {"encodeTime", "decodeTime", "decodeID"}
DrawsSince(pre) == (_d[2] - pre.d[2]) % P16

\* C20: encodeTime, decodeTime and decodeID leave the four words (a, b, c, d)
\* as they were, whether they succeed or fail, also over several such calls; the
\* state changes only through the draws of newRandomness and newID, and is never
\* seeded again: after such a call it is the state before the call advanced by
\* the draws made (none when the call threw).
C20_Pure ==
    /\ call.op \in PureOps => PRNG = call.pre
    /\ (call.op \in PureOps /\ prev.op \in PureOps) => PRNG = prev.pre
    /\ call.op \in {"newRandomness", "newID"}
       => /\ PRNG = WarmUp(call.pre, DrawsSince(call.pre))
          /\ DrawsSince(call.pre) <= ClampLength(LengthOf(call.len))
          /\ DrawsSince(call.pre) = 0 <=> call.res.out = "throw"
    /\ call.op # "none" /\ prev.op # "none"
       => call.pre = WarmUp(prev.pre, (call.pre.d[2] - prev.pre.d[2]) % P16)

\* C20's case: after a newID that drew, a decodeID that threw left the state
\* newID had produced.
C20_Witness ==
    /\ prev.op = "newID" /\ prev.res.out = "return"
    /\ call.op = "decodeID" /\ call.res.out = "throw"
    /\ PRNG = call.pre /\ PRNG # prev.pre

\* The words of k successive draws from state B, as bit sequences.
RECURSIVE RefDraws(_, _)
RefDraws(B, k) == IF k = 0 THEN <<>> ELSE <<DrawOf(B)>> \o RefDraws(Advance(B), k - 1)

\* The draw (counted from 0) and the field of it that character p of a suffix of
\* L symbols comes from: four fields a draw, except that the last of L = 4q + 3
\* symbols is field 0 of one more draw.
FieldAt(L, p) ==
    IF L % 4 = 3 /\ p = L - 1 THEN <<(p \div 4) + 1, 0>> ELSE <<p \div 4, p % 4>>

CeilQuarter(L) == (L + 3) \div 4

\* C22: no draw is wasted: with effective length L = clamp(length, 12, 1024),
\* one call of newRandomness advances the generator by exactly ceil(L / 4)
\* draws: the counter word d grows by ceil(L / 4).
C22_NoWaste ==
    call.op = "newRandomness"
    => /\ DrawsSince(call.pre) = CeilQuarter(ClampLength(LengthOf(call.len)))
       /\ PRNG = WarmUp(call.pre, CeilQuarter(ClampLength(LengthOf(call.len))))

\* C23: when newID (newTIDr) or newTimeIDr is called with a time it rejects,
\* the TypeError is thrown before any draw is made: the generator state after
\* the failed call is the state before it.
C23_NoDrawOnError ==
    /\ (call.op \in {"newID", "newTimeIDr"} /\ call.res.out = "throw")
       => call.res.v = TypeError /\ PRNG = call.pre
    /\ (call.op \in {"newID", "newTimeIDr"} /\ Rejected(TimeValue(call.arg)))
       => call.res.out = "throw" /\ PRNG = call.pre

\* C23's case: after a newTimeIDr that drew, newID with a negative time threw
\* and left the state newTimeIDr had produced.
C23_Witness ==
    /\ prev.op = "newTimeIDr" /\ prev.res.out = "return"
    /\ call.op = "newID" /\ call.arg.k = "neg" /\ call.res = Throw(TypeError)
    /\ PRNG = call.pre /\ PRNG # prev.pre

\* The symbols of the four 6-bit fields of a word, by four single lookups
\* CHAR_DICT[r & 0x3F] with r shifted right by 6 in between.
SingleLookups(r) ==
    <<AlphabetInOrder[(r[2] % 64) + 1],
      AlphabetInOrder[((r[2] \div 64) % 64) + 1],
      AlphabetInOrder[((r[1] % 4) * 16) + (r[2] \div 4096) + 1],
      AlphabetInOrder[((r[1] \div 4) % 64) + 1]>>

\* C24: for every 12-bit value v in 0..4095 the entry of the two-symbol table
\* is alphabet[v mod 64] followed by alphabet[floor(v / 64)], the low 6 bits
\* first; so a suffix emitted through the table (newRandomness(12): two entries
\* a draw) is what single-symbol lookups of the same draws give.
C24_DoubleTable ==
    /\ calls = 0
       => \A v \in 0..4095 :
              DOUBLE_CHAR_DICT(v)
                = <<AlphabetInOrder[(v % 64) + 1], AlphabetInOrder[(v \div 64) + 1]>>
    /\ (call.op = "newRandomness" /\ LengthOf(call.len) = MinLength)
       => LET n1 == nextInt32(call.pre)
              n2 == nextInt32(n1.st)
              n3 == nextInt32(n2.st)
          IN  call.res.v.s
                = SingleLookups(n1.r) \o SingleLookups(n2.r) \o SingleLookups(n3.r)

\* C24's case: newRandomness(12) returned a suffix whose first two symbols, one
\* table entry, differ, so that their order shows.
C24_Witness ==
    /\ call.op = "newRandomness" /\ LengthOf(call.len) = MinLength
    /\ call.res.v.s[1] # call.res.v.s[2]
    /\ SubSeq(call.res.v.s, 1, 2) = DOUBLE_CHAR_DICT(And0xFFF(nextInt32(call.pre).r))

-----------------------------------------------------------------------------
(* What the code does keep: the >>>= 6 steps of encodeTime work on the low 32  *)
(* bits of ts / 4096, so the eight symbols carry t modulo 2^44.  Below 2^44    *)
(* the round trip, the order and the prefix decode hold.                        *)

IsTime44(v) == v.k = "int" /\ v.n[1] < 2^20

RoundTripBelow44 ==
    (/\ call.op = "decodeTime" /\ prev.op = "encodeTime"
     /\ IsTime48(prev.arg) /\ IsTime44(prev.arg) /\ prev.res.out = "return"
     /\ call.arg.t = "string" /\ IsPrefix(prev.res.v.s, call.arg.s))
    => call.res = Return(prev.arg)

MonotoneBelow44 ==
    (/\ call.op \in {"encodeTime", "newID"} /\ prev.op = call.op
     /\ IsIDTime48(prev.arg) /\ IsIDTime48(call.arg)
     /\ IsTime44(prev.arg) /\ IsTime44(call.arg)
     /\ NumLess(prev.arg.n, call.arg.n))
    => StrLess(prev.res.v.s, call.res.v.s)

\* Below 2^44 an identifier decodes to the time and the suffix it was made of.
ComposeParseBelow44 ==
    (DecodesLastID /\ IsIDTime48(prev.arg) /\ IsTime44(prev.arg)
     /\ call.delim = prev.delim)
    => /\ call.res.out = "return" /\ call.res.v.t = "TimeIDRandom"
       /\ call.res.v.time = JsInt(prev.arg.n[1], prev.arg.n[2])
       /\ call.res.v.randomness = newRND(LengthOf(prev.len), prev.pre).str

\* Below 2^44 the symbols are the 6-bit chunks of t, and no two times share an
\* encoding; at any magnitude encodeTime(t) is encodeTime(t mod 2^44).
ChunksBelow44 ==
    (call.op = "encodeTime" /\ IsTime48(call.arg) /\ IsTime44(call.arg))
    => \A k \in 0..7 :
           call.res.v.s[k + 1] = AlphabetInOrder[Chunk(call.arg.n, 7 - k) + 1]

Wrap44 ==
    (/\ call.op = "encodeTime" /\ prev.op = "encodeTime"
     /\ call.arg.t = "number" /\ call.arg.k = "int"
     /\ prev.arg.t = "number" /\ prev.arg.k = "int")
    => /\ prev.arg.n = <<call.arg.n[1] % (2^20), call.arg.n[2]>>
          => call.res = prev.res
       /\ (IsTime44(call.arg) /\ IsTime44(prev.arg) /\ call.arg.n # prev.arg.n)
          => call.res # prev.res

\* The draws newRandomness makes: one for every four symbols, one more for a
\* remainder of one or two symbols, and two more for a remainder of three (two
\* symbols from the first, the last symbol from a draw of its own).
DrawsMade ==
    call.op = "newRandomness"
    => LET L == ClampLength(LengthOf(call.len))
       IN  DrawsSince(call.pre)
             = (L \div 4) + (CASE L % 4 = 0 -> 0 [] L % 4 = 3 -> 2 [] OTHER -> 1)

====
